---- MODULE Spec2Model ----
(***************************************************************************)
(* A model of blink.py: the peak-list normaliser (remove_duplicate_ions),  *)
(* the discretiser (discretize_spectra), the network kernel                *)
(* (network_kernel), the score kernel (score_sparse_spectra) and the       *)
(* result filter (filter_hits).                                            *)
(*                                                                         *)
(* Numbers.  m/z values, precursors, tolerances and mass differences are   *)
(* integers counted in one fine unit; bin_width is an integer in the same  *)
(* unit, so mz/bin_width is an exact rational and np.rint is computed on   *)
(* it (round half to even).  A normalised intensity is kept as the        *)
(* intensity, the root to take and the squared norm of its spectrum; a     *)
(* score entry is kept as (num, den2), the value num/sqrt(den2), so no     *)
(* floating-point rounding takes place and the count weight               *)
(* n**.5/norm(ones(n)) of line 82 is exactly 1.  Arrays are sequences      *)
(* (position i here is index i-1 in the source); spectrum ids are the      *)
(* source's 0-based ids.                                                   *)
(***************************************************************************)
EXTENDS Integers, Sequences, FiniteSets, Bags, TLC

VARIABLES
    mzis,    \* remove_duplicate_ions / discretize_spectra: the list of spectra
    pmzs,    \* discretize_spectra: the precursor of every input spectrum
    opts,    \* the options of the call (min_diff, bin_width, ...)
    ret,     \* what the call returned, or that it raised
    S1,      \* score_sparse_spectra: the first store (a dict, _net fields included)
    S2,      \* score_sparse_spectra: the second store
    S12,     \* the result of the last score_sparse_spectra call, or that it raised
    call,    \* the arguments of the last score_sparse_spectra call
    hits     \* filter_hits: the S12 it is given; get_topk_blink_matrix: the table D

vars == <<mzis, pmzs, opts, ret, S1, S2, S12, call, hits>>

Unused == [status |-> "unused"]

----------------------------------------------------------------------------
(* Arithmetic helpers.                                                     *)

\* F(v), with v computed once and F applied to the value (an intermediate
\* result that is used many times is named this way).
Eval(v, F(_)) == CHOOSE r \in {F(x) : x \in {v}} : TRUE

Abs(x) == IF x < 0 THEN -x ELSE x

SetMin(s) == Eval(s, LAMBDA t : CHOOSE x \in t : \A y \in t : x <= y)

SetMax(s) == Eval(s, LAMBDA t : CHOOSE x \in t : \A y \in t : x >= y)

\* The sum of a sequence of naturals: the size of the bag that holds index i
\* s[i] times.
SeqSum(s) ==
    Eval(s, LAMBDA t : BagCardinality([i \in {j \in 1..Len(t) : t[j] > 0} |-> t[i]]))

\* np.add.outer(a, b).flatten() for F = +, and its like: F(a[i], b[j]), the
\* index of b running fastest
Outer(F(_, _), a, b) ==
    Eval(<<a, b>>, LAMBDA ab :
        [k \in 1..(Len(ab[1]) * Len(ab[2])) |->
           F(ab[1][((k - 1) \div Len(ab[2])) + 1], ab[2][((k - 1) % Len(ab[2])) + 1])])

SeqMin(s) == Eval(s, LAMBDA t : SetMin({t[i] : i \in 1..Len(t)}))

SeqMax(s) == Eval(s, LAMBDA t : SetMax({t[i] : i \in 1..Len(t)}))

RECURSIVE Flatten(_)
Flatten(ss) == IF ss = <<>> THEN <<>> ELSE ss[1] \o Flatten(Tail(ss))

\* floor(n/d) for d > 0 (TLA+'s \div floors).
FloorDiv(n, d) == n \div d

\* np.rint(n/d), d > 0: the nearest integer, a half going to the even one.
Rint(n, d) ==
    LET q == FloorDiv(n, d)
        r == n - q * d
    IN  IF 2 * r < d THEN q
        ELSE IF 2 * r > d THEN q + 1
        ELSE IF q % 2 = 0 THEN q ELSE q + 1

\* int(n/d), d > 0: Python's int() of a float truncates toward zero.
TruncDiv(n, d) == IF n >= 0 THEN n \div d ELSE -((-n) \div d)

----------------------------------------------------------------------------
(* remove_duplicate_ions (blink.py 22-50).  A spectrum is                  *)
(* [mz |-> <<...>>, it |-> <<...>>], the two rows of the 2xM array.        *)

\* Bounds of the inputs.
MaxLen == 3

\* m/z inputs are multiples of MzScale, so that every nested np.mean of two
\* values (a chain of at most MaxLen - 1 halvings) is an integer.
MzScale == 2 ^ MaxLen

\* np.diff(s[0], prepend=0)
DiffPrepend0(mz) == [i \in 1..Len(mz) |-> IF i = 1 THEN mz[1] ELSE mz[i] - mz[i-1]]

\* line 35: the spectra the outer loop visits.  The builtin min of an empty
\* array raises, which IsEmptySpectrum covers in remove_duplicate_ions below.
IsBad(s, md) == SeqMin(DiffPrepend0(s.mz)) <= md

\* line 37: np.argwhere(np.diff(mz) < min_diff), as positions 1..M-1
DupIdx(s, md) == {i \in 1..(Len(s.mz) - 1) : s.mz[i+1] - s.mz[i] < md}

\* lines 40-45: one pass of the inner loop at sub_idx = i: both slots of the
\* pair take the mean m/z and the summed intensity.
MergePair(s, i) ==
    LET new_mz == (s.mz[i] + s.mz[i+1]) \div 2
        new_intensity == s.it[i] + s.it[i+1]
    IN  [mz |-> [s.mz EXCEPT ![i] = new_mz, ![i+1] = new_mz],
         it |-> [s.it EXCEPT ![i] = new_intensity, ![i+1] = new_intensity]]

\* lines 38-45: the inner loop, sub_idx running over idx from the highest
\* position down to the lowest (idx is computed once, before the loop).
RECURSIVE MergeLoop(_, _, _)
MergeLoop(s, idx, i) ==
    IF i = 0 THEN s
    ELSE MergeLoop(IF i \in idx THEN MergePair(s, i) ELSE s, idx, i - 1)

\* np.delete(a, idx)
RECURSIVE Delete(_, _, _)
Delete(a, idx, i) ==
    IF i > Len(a) THEN <<>>
    ELSE (IF i \in idx THEN <<>> ELSE <<a[i]>>) \o Delete(a, idx, i + 1)

\* lines 37-48: the body of the outer loop for one spectrum.
DedupSpectrum(s, md) ==
    LET idx == DupIdx(s, md)
        m   == MergeLoop(s, idx, Len(s.mz) - 1)
    IN  [mz |-> Delete(m.mz, idx, 1), it |-> Delete(m.it, idx, 1)]

IsEmptySpectrum(s) == Len(s.mz) = 0

\* lines 35-50: the whole function on a list of spectra.
remove_duplicate_ions(ms, md) ==
    IF \E i \in 1..Len(ms) : IsEmptySpectrum(ms[i])
    THEN [status |-> "ValueError"]
    ELSE [status |-> "ok",
          mzis |-> [i \in 1..Len(ms) |->
                      IF IsBad(ms[i], md) THEN DedupSpectrum(ms[i], md) ELSE ms[i]]]

----------------------------------------------------------------------------
(* discretize_spectra (blink.py 52-111).                                   *)
(*                                                                         *)
(* intensity_power is 1/d for d in {1, 2}.  A complex cell of S['ic'] is   *)
(* [re |-> [base |-> v, root |-> d, n2 |-> n], im |-> c], the value        *)
(* v**(1/d) / sqrt(n) + c j, where n is the squared norm of the spectrum's *)
(* raised intensities (an integer: the sum of v**(2/d)).  The root is      *)
(* taken where the scores multiply intensities, on d-th powers.            *)

Raised(e) == [status |-> e]

\* intensity ** intensity_power, for intensity_power = 1/d
Root(v, d) == IF d = 1 THEN v ELSE CHOOSE r \in 0..v : r * r = v

\* lines 73-75: the original (0-based) indices of the spectra with a peak
TrimKept(ms) ==
    SelectSeq([i \in 1..Len(ms) |-> i - 1], LAMBDA i : ~IsEmptySpectrum(ms[i + 1]))

\* lines 73-75: the spectra with a peak
TrimMzis(ms) == SelectSeq(ms, LAMBDA s : ~IsEmptySpectrum(s))

\* lines 79, 84: the peaks of all spectra in one array, each with the
\* position (0-based) of its spectrum in the list the loop enumerates.
PeaksOf(ms) ==
    Flatten([i \in 1..Len(ms) |->
               [j \in 1..Len(ms[i].mz) |->
                  [sid |-> i - 1, mz |-> ms[i].mz[j], it |-> ms[i].it[j]]]])

\* (v ** (1/d)) ** 2
\* faulty variant of RaisedSquared: the raised intensity itself, not its square
RaisedUnsquared(v, d) == IF d = 1 THEN v ELSE Root(v, d)

RaisedSquared(v, d) == IF d = 1 THEN v * v ELSE v

\* line 81: ||mzi[1] ** intensity_power||^2 of one spectrum
Norm2(s, d) == SeqSum([j \in 1..Len(s.it) |-> RaisedSquared(s.it[j], d)])

\* line 86: np.rint(mz / bin_width)
MzBin(mz, bin_width) == Rint(mz, bin_width)

\* line 87: np.rint(pmzs[spec_id] / bin_width) - mz_bin; pmzs is indexed by
\* the id the peak has in the list that was enumerated at line 79.
NlBin(pk, pm, bin_width) == Rint(pm[pk.sid + 1], bin_width) - MzBin(pk.mz, bin_width)

\* line 90: shift = -min(nl over all peaks)
Shift(pks, pm, bin_width) ==
    -SetMin({NlBin(pks[i], pm, bin_width) : i \in 1..Len(pks)})

\* lines 95-96: the column of every entry, the m/z entries first
Columns(pks, pm, bin_width) ==
    LET shift == Shift(pks, pm, bin_width)
    IN  [i \in 1..Len(pks) |-> MzBin(pks[i].mz, bin_width) + shift]
        \o [i \in 1..Len(pks) |-> NlBin(pks[i], pm, bin_width) + shift]

\* scipy's coo_matrix refuses a negative index ("negative column index found")
CooAccepts(cols) == \A i \in 1..Len(cols) : cols[i] >= 0

\* line 109: np.setdiff1d(np.arange(spec_ids[-1] + 1), kept)
Blanks(pks, kept) ==
    {i \in 0..pks[Len(pks)].sid : \A j \in 1..Len(kept) : kept[j] # i}

\* faulty variant of Binned: the count is packed into the m/z entries too
BinnedPacked(ms, pm, bin_width, d, trim_empty, kept) ==
    LET pks  == PeaksOf(ms)
        n    == Len(pks)
        cols == Columns(pks, pm, bin_width)
        S == [ic |-> [i \in 1..n |->
                        [re |-> [base |-> pks[i].it, root |-> d,
                                 n2   |-> Norm2(ms[pks[i].sid + 1], d)],
                         im |-> 1]]
                     \o [i \in 1..n |-> [re |-> [base |-> 0, root |-> 1, n2 |-> 1],
                                          im |-> 1]],
              spec_ids |-> [i \in 1..n |-> pks[i].sid] \o [i \in 1..n |-> pks[i].sid],
              mz |-> cols,
              pmz |-> pm,
              shift |-> Shift(pks, pm, bin_width),
              bin_width |-> bin_width,
              intensity_power |-> d]
    IN  IF n = 0 THEN Raised("ValueError")
        ELSE IF ~CooAccepts(cols) THEN Raised("ValueError")
        ELSE [status |-> "ok",
              S |-> IF trim_empty THEN S @@ [blanks |-> Blanks(pks, kept)] ELSE S]

\* lines 79-111: binning, once the list of spectra is fixed
Binned(ms, pm, bin_width, d, trim_empty, kept) ==
    LET pks  == PeaksOf(ms)
        n    == Len(pks)
        cols == Columns(pks, pm, bin_width)
        S == [ic |-> [i \in 1..n |->
                        [re |-> [base |-> pks[i].it, root |-> d,
                                 n2   |-> Norm2(ms[pks[i].sid + 1], d)],
                         im |-> 0]]
                     \o [i \in 1..n |-> [re |-> [base |-> 0, root |-> 1, n2 |-> 1],
                                          im |-> 1]],
              spec_ids |-> [i \in 1..n |-> pks[i].sid] \o [i \in 1..n |-> pks[i].sid],
              mz |-> cols,
              pmz |-> pm,
              shift |-> Shift(pks, pm, bin_width),
              bin_width |-> bin_width,
              intensity_power |-> d]
    IN  IF n = 0 THEN Raised("ValueError")
        ELSE IF ~CooAccepts(cols) THEN Raised("ValueError")
        ELSE [status |-> "ok",
              S |-> IF trim_empty THEN S @@ [blanks |-> Blanks(pks, kept)] ELSE S]

\* lines 72-111: the whole function
discretize_spectra(ms, pm, bin_width, d, trim_empty, remove_duplicates) ==
    LET kept == TrimKept(ms)
        ms1  == IF trim_empty THEN TrimMzis(ms) ELSE ms
        dd   == IF remove_duplicates
                THEN remove_duplicate_ions(ms1, 2 * bin_width)
                ELSE [status |-> "ok", mzis |-> ms1]
    IN  IF trim_empty /\ Len(ms1) = 0 THEN Raised("ValueError")
        ELSE IF dd.status # "ok" THEN dd
        ELSE Binned(dd.mzis, pm, bin_width, d, trim_empty, kept)

----------------------------------------------------------------------------
(* network_kernel (blink.py 117-165).  tolerance and mass_diffs are in the *)
(* unit of bin_width.                                                      *)

RECURSIVE SortedSeqOf(_)
SortedSeqOf(s) ==
    IF s = {} THEN <<>> ELSE LET m == SetMin(s) IN <<m>> \o SortedSeqOf(s \ {m})

\* np.sort of an array (duplicates kept)
RECURSIVE SortAsc(_)
SortAsc(a) ==
    IF a = <<>> THEN <<>>
    ELSE LET m == SeqMin(a)
             k == CHOOSE i \in 1..Len(a) : a[i] = m
         IN  <<m>> \o SortAsc(SubSeq(a, 1, k - 1) \o SubSeq(a, k + 1, Len(a)))

Reverse(a) == [i \in 1..Len(a) |-> a[Len(a) + 1 - i]]

\* line 137: int(2*(tolerance/bin_width) - 1)
BinNum(tolerance, bin_width) == TruncDiv(2 * tolerance - bin_width, bin_width)

\* lines 139-143: the sorted magnitudes mirrored around zero, one zero popped
\* when the element at len//2 is zero.  The list is not empty here.
SymmetricDiffs(mass_diffs) ==
    LET a   == SortAsc([i \in 1..Len(mass_diffs) |-> Abs(mass_diffs[i])])
        l   == [i \in 1..Len(a) |-> -Reverse(a)[i]] \o a
        mid == (Len(l) \div 2) + 1
    IN  IF l[mid] = 0 THEN SubSeq(l, 1, mid - 1) \o SubSeq(l, mid + 1, Len(l)) ELSE l

\* line 145: np.rint(mass_diffs / bin_width)
BinnedDiffs(mass_diffs, bin_width) ==
    LET l == SymmetricDiffs(mass_diffs)
    IN  [i \in 1..Len(l) |-> Rint(l[i], bin_width)]

\* lines 148-152 and np.unique at 155: the sums of react_steps binned diffs
RECURSIVE React(_, _)
React(dbin, react_steps) ==
    IF react_steps = 1 THEN {dbin[i] : i \in 1..Len(dbin)}
    ELSE {dbin[i] + x : i \in 1..Len(dbin), x \in React(dbin, react_steps - 1)}

\* faulty variant of ToleranceBins: np.arange(-(bin_num//2), bin_num//2 + 1)
ToleranceBinsCentred(bin_num) ==
    LET hi == FloorDiv(bin_num, 2)
    IN  [i \in 1..(2 * hi + 1) |-> i - 1 - hi]

\* line 156: np.arange(-bin_num//2 + 1, bin_num//2 + 1)
ToleranceBins(bin_num) ==
    LET lo == FloorDiv(-bin_num, 2) + 1
        hi == FloorDiv(bin_num, 2)
    IN  [i \in 1..(hi - lo + 1) |-> lo + i - 1]

\* lines 155-156: the offsets, np.add.outer(unique reacted diffs, bins).flatten()
Offsets(tolerance, mass_diffs, react_steps, bin_width) ==
    LET d == SortedSeqOf(React(BinnedDiffs(mass_diffs, bin_width), react_steps))
        t == ToleranceBins(BinNum(tolerance, bin_width))
    IN  Outer(LAMBDA x, y : x + y, d, t)

\* np.add.outer(a, np.zeros_like(offsets)).flatten(): every cell of a, once
\* per offset
Repeat(a, offsets) == Outer(LAMBDA x, y : x, a, offsets)

\* faulty variant of ApplyKernel: derived fields a store already has are
\* kept (S.setdefault) instead of overwritten
ApplyKernelKeep(S, om) ==
    Eval(Outer(LAMBDA x, y : x + y, S.mz, om), LAMBDA raw :
        LET net == [ic_net |-> Repeat(S.ic, om),
                    spec_ids_net |-> Repeat(S.spec_ids, om),
                    mz_net |-> raw]
        IN  IF Len(raw) = 0 THEN [status |-> "ValueError", S |-> S @@ net]
            ELSE Eval(SeqMin(raw), LAMBDA lo :
                   [status |-> "ok",
                    S |-> S @@ [mz_net |-> [i \in 1..Len(raw) |-> raw[i] - lo],
                                shift_net |-> S.shift - lo] @@ net]))

\* lines 159-165, with the offsets om computed.  The function writes ic_net,
\* spec_ids_net and mz_net before it takes the minimum at line 162, so a
\* raise there leaves them written.
ApplyKernel(S, om) ==
    Eval(Outer(LAMBDA x, y : x + y, S.mz, om), LAMBDA raw :
        LET net == [ic_net |-> Repeat(S.ic, om),
                    spec_ids_net |-> Repeat(S.spec_ids, om),
                    mz_net |-> raw]
        IN  IF Len(raw) = 0 THEN [status |-> "ValueError", S |-> net @@ S]
            ELSE Eval(SeqMin(raw), LAMBDA lo :
                   [status |-> "ok",
                    S |-> [mz_net |-> [i \in 1..Len(raw) |-> raw[i] - lo],
                           shift_net |-> S.shift - lo] @@ net @@ S]))

\* lines 137-165
network_kernel(S, tolerance, mass_diffs, react_steps) ==
    IF Len(mass_diffs) = 0 THEN [status |-> "IndexError", S |-> S]
    ELSE Eval(Offsets(tolerance, mass_diffs, react_steps, S.bin_width),
              LAMBDA om : ApplyKernel(S, om))

----------------------------------------------------------------------------
(* score_sparse_spectra (blink.py 186-250).                                *)
(*                                                                         *)
(* A coordinate matrix is a sequence of [r, s, v]: row r (a column of the  *)
(* store), column s (a spectrum id) and the value v = [num, n2], standing  *)
(* for num/sqrt(n2); a count is [num |-> c, n2 |-> 1].  A result matrix is *)
(* [shape |-> <<rows, cols>>, m |-> cells], a cell [num, den2] standing    *)
(* for num/sqrt(den2) and an empty cell being [num |-> 0, den2 |-> 1].     *)

Pick(a, pos) == Eval(<<a, pos>>, LAMBDA x : [k \in 1..Len(x[2]) |-> x[1][x[2][k]]])

\* positions of an array that satisfy a test, in order
Where(a, Test(_)) ==
    Eval(a, LAMBDA x : SelectSeq([k \in 1..Len(x) |-> k], LAMBDA k : Test(x[k])))

\* sp.coo_matrix((v, (r, s))): the three arrays must be equally long and the
\* index arrays not empty
Coo(v, r, s) ==
    Eval(<<v, r, s>>, LAMBDA x :
        IF Len(x[1]) # Len(x[2]) \/ Len(x[2]) = 0 THEN Raised("ValueError")
        ELSE [status |-> "ok",
              e |-> [k \in 1..Len(x[1]) |-> [r |-> x[2][k], s |-> x[3][k], v |-> x[1][k]]]])

\* lines 208-218, on the arrays the suffix selects
ExpandArrays(ic, col, sid) ==
    Eval(<<Where(ic, LAMBDA x : x.re.base > 0), Where(ic, LAMBDA x : x.im > 0)>>,
         LAMBDA pos :
        LET mzp == pos[1]
            nlp == pos[2]
            mz  == Pick(col, mzp)
            nl  == Pick(col, nlp)
            mz_spec_ids == Pick(sid, mzp)
            nl_spec_ids == Pick(sid, nlp)
            i   == [k \in 1..Len(mzp) |->
                      [num |-> Root(ic[mzp[k]].re.base, ic[mzp[k]].re.root),
                       n2  |-> ic[mzp[k]].re.n2]]
            c   == [k \in 1..Len(nlp) |-> [num |-> ic[nlp[k]].im, n2 |-> 1]]
        IN  [mzi |-> Coo(i, mz, mz_spec_ids),
             nli |-> Coo(i, nl, nl_spec_ids),
             mzc |-> Coo(c, mz, mz_spec_ids),
             nlc |-> Coo(c, nl, nl_spec_ids)])

\* lines 202-220
expand_sparse_spectra(S, networked) ==
    IF networked THEN ExpandArrays(S.ic_net, S.mz_net, S.spec_ids_net)
    ELSE ExpandArrays(S.ic, S.mz, S.spec_ids)

Keys == {"mzi", "nli", "mzc", "nlc"}

ZeroCell == [num |-> 0, den2 |-> 1]

\* the number of spectra a coordinate matrix spans: its largest id + 1
NumSpec(e) == SetMax({e[k].s : k \in 1..Len(e)}) + 1

\* One cell of v1.dot(v2): the sum of v1[a, col] * v2[col, b] over the
\* aligned columns; pad1 and pad2 are the empty columns put before each side.
DotCell(e1, e2, pad1, pad2, a, b) ==
    LET hit == {p \in (1..Len(e1)) \X (1..Len(e2)) :
                  /\ e1[p[1]].s = a /\ e2[p[2]].s = b
                  /\ e1[p[1]].r + pad1 = e2[p[2]].r + pad2
                  /\ e1[p[1]].v.num * e2[p[2]].v.num > 0}
    IN  IF hit = {} THEN ZeroCell
        ELSE [num  |-> BagCardinality([p \in hit |-> e1[p[1]].v.num * e2[p[2]].v.num]),
              den2 |-> LET p == CHOOSE q \in hit : TRUE
                       IN  e1[p[1]].v.n2 * e2[p[2]].v.n2]

\* lines 235-246: v1 = E1[k].T, v2 = E2[k], the side with the smaller shift
\* padded on the low side, both resized to a common width, and the product.
ShiftedDot(x1, x2, S1_shift, S2_shift) ==
    Eval(<<x1, x2>>, LAMBDA x :
        LET e1   == x[1]
            e2   == x[2]
            pad1 == IF S1_shift < S2_shift THEN S2_shift - S1_shift ELSE 0
            pad2 == IF S2_shift < S1_shift THEN S1_shift - S2_shift ELSE 0
        IN  [shape |-> <<NumSpec(e1), NumSpec(e2)>>,
             m |-> [ab \in (0..(NumSpec(e1) - 1)) \X (0..(NumSpec(e2) - 1)) |->
                      DotCell(e1, e2, pad1, pad2, ab[1], ab[2])]])

\* lines 226-250, once the kernel has run: A1 and B1 are S1 and S2 as it
\* left them.
ScoreExpanded(A1, B1, ordered) ==
    Eval(<<expand_sparse_spectra(A1, ordered), expand_sparse_spectra(B1, ~ordered)>>,
         LAMBDA E :
        LET E1 == E[1]
            E2 == E[2]
            S1_shift == IF ordered THEN A1.shift_net ELSE A1.shift
            S2_shift == IF ordered THEN B1.shift ELSE B1.shift_net
        IN  IF \E k \in Keys : E1[k].status # "ok" \/ E2[k].status # "ok"
            THEN [status |-> "ValueError", S1 |-> A1, S2 |-> B1]
            ELSE [status |-> "ok", S1 |-> A1, S2 |-> B1,
                  S12 |-> [k \in Keys |->
                             ShiftedDot(E1[k].e, E2[k].e, S1_shift, S2_shift)]])

\* lines 222-250.  same tells that S1 and S2 are one dict (self-scoring), so
\* the kernel's writes to S2 are writes to S1.  The result carries the two
\* stores as the call leaves them.
score_sparse_spectra(A, B, same, tolerance, mass_diffs, react_steps) ==
    Eval(<<A, B>>, LAMBDA AB :
        LET ordered == Len(AB[1].ic) < Len(AB[2].ic)
        IN  Eval(network_kernel(IF ordered THEN AB[1] ELSE AB[2],
                                tolerance, mass_diffs, react_steps),
                 LAMBDA nk :
                LET A1 == IF ordered \/ same THEN nk.S ELSE AB[1]
                    B1 == IF ordered THEN AB[2] ELSE nk.S
                IN  IF nk.status # "ok" THEN [status |-> nk.status, S1 |-> A1, S2 |-> B1]
                    ELSE ScoreExpanded(A1, B1, ordered)))

----------------------------------------------------------------------------
(* Input spaces.                                                           *)

\* Non-decreasing sequences over a set of integers, of length n.
RECURSIVE SortedSeqs(_, _)
SortedSeqs(vals, n) ==
    IF n = 0 THEN {<<>>}
    ELSE {Append(s, v) : s \in SortedSeqs(vals, n - 1), v \in vals}
         \cap {s \in [1..n -> vals] : \A i \in 1..(n-1) : s[i] <= s[i+1]}

AllSeqs(vals, n) == [1..n -> vals]

SpectraOver(mzvals, itvals, lens) ==
    UNION {{[mz |-> m, it |-> t] : m \in SortedSeqs(mzvals, n), t \in AllSeqs(itvals, n)}
           : n \in lens}

\* remove_duplicate_ions: peaks on a grid of 0, 1, 2 (times MzScale).
DedupMz == {MzScale * k : k \in 0..2}

DedupIntensities == {1, 2}

DedupMinDiffs == {MzScale, MzScale + 1, 2 * MzScale + 1}

DedupSpectra == SpectraOver(DedupMz, DedupIntensities, 0..MaxLen)

----------------------------------------------------------------------------
(* Specification of remove_duplicate_ions: a call on one list of spectra.  *)

InitDedup ==
    /\ mzis \in {<<s>> : s \in DedupSpectra}
                \cup {<<s, t>> : s \in SpectraOver(DedupMz, {1}, {2}), t \in SpectraOver(DedupMz, {2}, {1, 3})}
    /\ opts \in {[min_diff |-> d] : d \in DedupMinDiffs}
    /\ ret = [status |-> "input"]
    /\ pmzs = Unused /\ S1 = Unused /\ S2 = Unused /\ S12 = Unused
    /\ call = Unused /\ hits = Unused

RemoveDuplicateIons ==
    /\ ret.status = "input"
    /\ opts.min_diff \in DedupMinDiffs
    /\ ret' = remove_duplicate_ions(mzis, opts.min_diff)
    /\ UNCHANGED <<mzis, pmzs, opts, S1, S2, S12, call, hits>>

NextDedup == RemoveDuplicateIons

SpecDedup == InitDedup /\ [][NextDedup]_vars

TotalIntensity(s) == SeqSum(s.it)

\* A run: positions a..b (b > a) of a spectrum in which every neighbouring
\* pair is closer than min_diff, and which no closer-than-min_diff pair extends.
IsRun(s, md, a, b) ==
    /\ 1 <= a /\ a < b /\ b <= Len(s.mz)
    /\ \A i \in a..(b-1) : s.mz[i+1] - s.mz[i] < md
    /\ (a > 1 => ~(s.mz[a] - s.mz[a-1] < md))
    /\ (b < Len(s.mz) => ~(s.mz[b+1] - s.mz[b] < md))

\* C9: remove_duplicate_ions replaces every run of k >= 2 close peaks by one
\* peak carrying the sum of all k intensities, so every spectrum keeps its
\* total intensity (the statement of the claim; the code breaks it for k >= 3).
C9_TotalIntensityKept ==
    ret.status = "ok" =>
        \A i \in 1..Len(mzis) : TotalIntensity(ret.mzis[i]) = TotalIntensity(mzis[i])

----------------------------------------------------------------------------
(* Specification of discretize_spectra: one call on a list of spectra.     *)

DiscMz == {MzScale * k : k \in 1..3}

DiscIntensities == {1, 4}

DiscPmz == {2 * MzScale, 6 * MzScale}

DiscBinWidths == {MzScale, 2 * MzScale}

IntensityPowers == {1, 2}

EmptySpectrum == [mz |-> <<>>, it |-> <<>>]

\* Lists of one or two spectra of up to two peaks, and lists of three spectra
\* that are empty or hold a single peak.
DiscSmall ==
    {EmptySpectrum, [mz |-> <<MzScale>>, it |-> <<4>>], [mz |-> <<3 * MzScale>>, it |-> <<1>>]}

DiscLists ==
    LET one == SpectraOver(DiscMz, DiscIntensities, 0..2)
    IN  {<<s>> : s \in one} \cup {<<s, t>> : s \in one, t \in DiscSmall}
        \cup {<<s, t, u>> : s \in DiscSmall, t \in DiscSmall, u \in DiscSmall}

DiscOpts ==
    [bin_width : DiscBinWidths, intensity_power : IntensityPowers,
     trim_empty : BOOLEAN, remove_duplicates : BOOLEAN]

InitDisc ==
    /\ mzis \in DiscLists
    /\ pmzs \in UNION {[1..n -> DiscPmz] : n \in 1..3}
    /\ Len(pmzs) = Len(mzis)
    /\ opts \in DiscOpts
    /\ ret = [status |-> "input"]
    /\ S1 = Unused /\ S2 = Unused /\ S12 = Unused /\ call = Unused /\ hits = Unused

DiscretizeSpectra ==
    /\ ret.status = "input"
    /\ opts \in DiscOpts
    /\ ret' = discretize_spectra(mzis, pmzs, opts.bin_width, opts.intensity_power,
                                 opts.trim_empty, opts.remove_duplicates)
    /\ UNCHANGED <<mzis, pmzs, opts, S1, S2, S12, call, hits>>

NextDisc == DiscretizeSpectra

SpecDisc == InitDisc /\ [][NextDisc]_vars

AllSpectraHavePeaks == \A i \in 1..Len(mzis) : ~IsEmptySpectrum(mzis[i])

\* C1: for every input whose spectra all have at least one peak,
\* discretize_spectra yields a store and every column of S['mz'] is >= 0
\* (the statement of the claim; the code computes a negative m/z column
\* whenever some m/z bin is below the smallest neutral-loss bin, and raises).
C1_StoredColumnsNonnegative ==
    (ret.status # "input" /\ AllSpectraHavePeaks) =>
        /\ ret.status = "ok"
        /\ \A i \in 1..Len(ret.S.mz) : ret.S.mz[i] >= 0

\* C8: with trim_empty, S['blanks'] is the set of the original indices of
\* the spectra without peaks (the statement of the claim; the code misses
\* every empty spectrum whose index is not below the number of kept ones).
C8_BlanksAreTheDropped ==
    (ret.status = "ok" /\ opts.trim_empty) =>
        ret.S.blanks = {i - 1 : i \in {j \in 1..Len(mzis) : IsEmptySpectrum(mzis[j])}}

----------------------------------------------------------------------------
(* Specification of the scoring pipeline: two lists of spectra are         *)
(* discretised into the stores S1 and S2, which are then scored against    *)
(* each other, in either order, and S1 against itself, any number of       *)
(* times, with the kernel parameters of the run.                           *)

\* The m/z grid of the scored spectra: bins 1..MaxBin at bin_width 2.
MaxBin == 3

ScoreBinWidths == {2}

ScoreMz == {2 * k : k \in 1..MaxBin}

ScoreIntensities == {1, 4}

ScorePmz == {4, 8}

\* tolerance: half a bin, one bin, one and a half, two
Tolerances == {1, 2, 3, 4}

MassDiffs == {<<0>>, <<4>>, <<0, 4>>}

ReactSteps == {1, 2}

\* The first list: one spectrum of one or two peaks, or two single peaks
\* with different precursors.
ScoreA ==
    {[ms |-> <<s>>, pm |-> <<4>>] : s \in SpectraOver(ScoreMz, {1}, {1})}
    \cup {[ms |-> <<[mz |-> m, it |-> <<1, v>>]>>, pm |-> <<4>>] :
            m \in SortedSeqs(ScoreMz, 2), v \in ScoreIntensities}
    \cup {[ms |-> <<s, t>>, pm |-> <<4, q>>] :
            s \in SpectraOver({2}, {1}, {1}), t \in SpectraOver({4, 6}, {4}, {1}),
            q \in ScorePmz}

\* The second list: one single peak, or two single peaks.
ScoreB ==
    {[ms |-> <<s>>, pm |-> <<4>>] : s \in SpectraOver(ScoreMz, ScoreIntensities, {1})}
    \cup {[ms |-> <<s>>, pm |-> <<8>>] : s \in SpectraOver({2, 6}, {1}, {1})}
    \cup {[ms |-> <<s, t>>, pm |-> <<4, 8>>] :
            s \in SpectraOver({2}, {4}, {1}), t \in SpectraOver({6}, {1}, {1})}

ScoreOpts ==
    [bin_width : ScoreBinWidths, intensity_power : {2},
     tolerance : Tolerances, mass_diffs : MassDiffs, react_steps : ReactSteps]

Init ==
    /\ \E a \in ScoreA, b \in ScoreB :
          /\ mzis = <<a.ms, b.ms>>
          /\ pmzs = <<a.pm, b.pm>>
    /\ opts \in ScoreOpts
    /\ S1 = [status |-> "input"]
    /\ S2 = [status |-> "input"]
    /\ S12 = [status |-> "none"]
    /\ call = [order |-> "none"]
    /\ ret = Unused /\ hits = Unused

Discretize ==
    /\ S1.status = "input"
    /\ S1' = discretize_spectra(mzis[1], pmzs[1], opts.bin_width, opts.intensity_power,
                                FALSE, FALSE)
    /\ S2' = discretize_spectra(mzis[2], pmzs[2], opts.bin_width, opts.intensity_power,
                                FALSE, FALSE)
    /\ UNCHANGED <<mzis, pmzs, opts, ret, S12, call, hits>>

Returned(r) == IF r.status = "ok" THEN [status |-> "ok", m |-> r.S12] ELSE [status |-> r.status]

\* score_sparse_spectra(S1, S2, ...)
ScoreS1S2 ==
    /\ S1.status = "ok" /\ S2.status = "ok"
    /\ \E r \in {score_sparse_spectra(S1.S, S2.S, FALSE, opts.tolerance,
                                     opts.mass_diffs, opts.react_steps)} :
           /\ S1' = [S1 EXCEPT !.S = r.S1]
           /\ S2' = [S2 EXCEPT !.S = r.S2]
           /\ S12' = Returned(r)
    /\ call' = [order |-> "12"]
    /\ UNCHANGED <<mzis, pmzs, opts, ret, hits>>

\* score_sparse_spectra(S2, S1, ...)
ScoreS2S1 ==
    /\ S1.status = "ok" /\ S2.status = "ok"
    /\ \E r \in {score_sparse_spectra(S2.S, S1.S, FALSE, opts.tolerance,
                                     opts.mass_diffs, opts.react_steps)} :
           /\ S2' = [S2 EXCEPT !.S = r.S1]
           /\ S1' = [S1 EXCEPT !.S = r.S2]
           /\ S12' = Returned(r)
    /\ call' = [order |-> "21"]
    /\ UNCHANGED <<mzis, pmzs, opts, ret, hits>>

\* score_sparse_spectra(S1, S1, ...)
ScoreSelf ==
    /\ S1.status = "ok" /\ S2.status = "ok"
    /\ \E r \in {score_sparse_spectra(S1.S, S1.S, TRUE, opts.tolerance,
                                     opts.mass_diffs, opts.react_steps)} :
           /\ S1' = [S1 EXCEPT !.S = r.S2]
           /\ S12' = Returned(r)
    /\ call' = [order |-> "11"]
    /\ UNCHANGED <<mzis, pmzs, opts, ret, S2, hits>>

Next == Discretize \/ ScoreS1S2 \/ ScoreS2S1 \/ ScoreSelf

Spec == Init /\ [][Next]_vars

----------------------------------------------------------------------------
(* Claims about the scoring pipeline.                                      *)

Scored(order) == call.order = order /\ S12.status = "ok"

\* score_sparse_spectra on the stores as they stand, with other parameters
ScoreWith(A, B, tolerance, mass_diffs, react_steps) ==
    score_sparse_spectra(A, B, FALSE, tolerance, mass_diffs, react_steps)

Transpose(M) ==
    [shape |-> <<M.shape[2], M.shape[1]>>,
     m |-> [ab \in (0..(M.shape[2] - 1)) \X (0..(M.shape[1] - 1)) |-> M.m[<<ab[2], ab[1]>>]]]

\* the m/z bins of the peaks of input spectrum s (0-based) of list l
BinsOf(l, s) ==
    [j \in 1..Len(mzis[l][s + 1].mz) |-> MzBin(mzis[l][s + 1].mz[j], opts.bin_width)]

\* The tolerance window of section 4.4: with n = int(2T/w - 1) for T >= w,
\* the offsets -ceil(n/2)+1 .. floor(n/2).
WindowLo == -((((2 * opts.tolerance - opts.bin_width) \div opts.bin_width) + 1) \div 2) + 1

WindowHi == ((2 * opts.tolerance - opts.bin_width) \div opts.bin_width) \div 2

SelfScoredPlain ==
    /\ Scored("11")
    /\ opts.mass_diffs = <<0>> /\ opts.react_steps = 1
    /\ opts.tolerance >= opts.bin_width

\* C2 as stated: self-scoring with D = [0], r = 1 and T >= bin_width gives
\* mzc[s][s] = the number of peaks of spectrum s.
C2_SelfCountIsPeakCount ==
    SelfScoredPlain =>
        \A s \in 0..(Len(mzis[1]) - 1) :
            S12.m["mzc"].m[<<s, s>>].num = Len(mzis[1][s + 1].mz)

\* C2 amended: mzc[s][s] is the number of ordered pairs (a, b) of peaks of s
\* whose m/z bins differ by an offset of the tolerance window; it is the
\* number of peaks when no two peaks of s are within floor(n/2) bins.
C2_SelfCountIsPairsInWindow ==
    SelfScoredPlain =>
        \A s \in 0..(Len(mzis[1]) - 1) :
            LET b == BinsOf(1, s)
                n == Len(b)
            IN  /\ S12.m["mzc"].m[<<s, s>>].num =
                      Cardinality({p \in (1..n) \X (1..n) :
                                     b[p[1]] - b[p[2]] \in WindowLo..WindowHi})
                /\ (\A i, j \in 1..n : i # j => Abs(b[i] - b[j]) > WindowHi)
                      => S12.m["mzc"].m[<<s, s>>].num = n

C2_Witness ==
    /\ SelfScoredPlain
    /\ opts.tolerance = 4
    /\ Len(mzis[1]) = 1 /\ mzis[1][1].mz = <<2, 6>>
    /\ S12.m["mzc"].m[<<0, 0>>].num = 2

\* C3 as stated: score(A, B).mzi is the transpose of score(B, A).mzi for
\* all stores and all kernel parameters.
C3_MziSymmetric ==
    Scored("12") =>
        LET r == ScoreWith(S2.S, S1.S, opts.tolerance, opts.mass_diffs, opts.react_steps)
        IN  r.status = "ok" /\ S12.m["mzi"] = Transpose(r.S12["mzi"])

Range(s) == {s[i] : i \in DOMAIN s}

\* cell values num/sqrt(den2) compared without taking roots
CellLeq(c, d) == c.num * c.num * d.den2 <= d.num * d.num * c.den2

NeverDecreases(M, N) ==
    \A k \in Keys :
        /\ M[k].shape = N[k].shape
        /\ \A ab \in DOMAIN M[k].m : CellLeq(M[k].m[ab], N[k].m[ab])

\* kernel parameters at least as permissive as the ones in force
Enlarged ==
    {q \in [tolerance : Tolerances, mass_diffs : MassDiffs, react_steps : ReactSteps] :
        /\ q.tolerance >= opts.tolerance
        /\ Range(opts.mass_diffs) \subseteq Range(q.mass_diffs)
        /\ q.react_steps >= opts.react_steps}

MonotoneTowards(q) ==
    LET r == ScoreWith(S1.S, S2.S, q.tolerance, q.mass_diffs, q.react_steps)
    IN  /\ r.status = "ok"
        /\ Range(Offsets(opts.tolerance, opts.mass_diffs, opts.react_steps, opts.bin_width))
              \subseteq Range(Offsets(q.tolerance, q.mass_diffs, q.react_steps, opts.bin_width))
        /\ NeverDecreases(S12.m, r.S12)

\* C4 as stated: raising tolerance, enlarging mass_diffs or raising
\* react_steps never removes a kernel offset and never decreases (or zeroes)
\* an entry of mzi, nli, mzc, nlc.
C4_Monotone ==
    Scored("12") => \A q \in Enlarged : MonotoneTowards(q)

\* C6 as stated: every entry of mzi and nli lies in [0, 1].
C6_ScoresInUnitInterval ==
    S12.status = "ok" =>
        \A k \in {"mzi", "nli"} : \A ab \in DOMAIN S12.m[k].m :
            /\ S12.m[k].m[ab].num >= 0
            /\ S12.m[k].m[ab].num * S12.m[k].m[ab].num <= S12.m[k].m[ab].den2

OffsetsInForce == Offsets(opts.tolerance, opts.mass_diffs, opts.react_steps, opts.bin_width)

\* no offset occurs twice, and within every spectrum any two peaks are more
\* bins apart than the offsets span: no peak is matched more than once
OneToOneMatching ==
    /\ \A i, j \in DOMAIN OffsetsInForce : i # j => OffsetsInForce[i] # OffsetsInForce[j]
    /\ \A l \in {1, 2} : \A s \in 0..(Len(mzis[l]) - 1) :
          \A i, j \in DOMAIN BinsOf(l, s) :
              i # j => Abs(BinsOf(l, s)[i] - BinsOf(l, s)[j])
                          > SeqMax(OffsetsInForce) - SeqMin(OffsetsInForce)

\* C6 amended: every entry of mzi and nli is >= 0, and is <= 1 when the
\* matching is one-to-one (no repeated offset, peaks of a spectrum further
\* apart than the span of the offsets).
C6_ScoresInUnitIntervalWhenOneToOne ==
    S12.status = "ok" =>
        \A k \in {"mzi", "nli"} : \A ab \in DOMAIN S12.m[k].m :
            /\ S12.m[k].m[ab].num >= 0
            /\ OneToOneMatching =>
                  S12.m[k].m[ab].num * S12.m[k].m[ab].num <= S12.m[k].m[ab].den2

C6_Witness ==
    /\ Scored("12")
    /\ OneToOneMatching
    /\ Len(mzis[1][1].mz) = 2
    /\ S12.m["mzi"].m[<<0, 0>>].num > 0
    /\ S12.m["mzi"].m[<<0, 0>>].num * S12.m["mzi"].m[<<0, 0>>].num < S12.m["mzi"].m[<<0, 0>>].den2

\* C10 as stated: scoring with a tolerance below bin_width completes.
C10_SmallToleranceScores ==
    (call.order # "none" /\ opts.tolerance < opts.bin_width) => S12.status = "ok"

----------------------------------------------------------------------------
(* The concrete scenarios of the scoring pipeline: bin width 0.001,        *)
(* intensity 16 with power 1/2, single-peak spectra at m/z 100.000,         *)
(* 100.018 and 116.000 with precursor 200 or 300, tolerance 0.005 or 0.01,  *)
(* mass_diffs [0] or [15.99491].  One unit is 0.00001 Da.                   *)

ScenarioSpectra ==
    {[ms |-> <<[mz |-> <<m>>, it |-> <<16>>]>>, pm |-> <<q>>] :
        m \in {10000000, 10001800, 11600000}, q \in {20000000, 30000000}}

ScenarioOpts ==
    [bin_width : {100}, intensity_power : {2}, tolerance : {500, 1000},
     mass_diffs : {<<0>>, <<1599491>>}, react_steps : {1}]

InitScenarios ==
    /\ \E a \in ScenarioSpectra, b \in ScenarioSpectra :
          /\ mzis = <<a.ms, b.ms>>
          /\ pmzs = <<a.pm, b.pm>>
    /\ opts \in ScenarioOpts
    /\ S1 = [status |-> "input"]
    /\ S2 = [status |-> "input"]
    /\ S12 = [status |-> "none"]
    /\ call = [order |-> "none"]
    /\ ret = Unused /\ hits = Unused

SpecScenarios == InitScenarios /\ [][Next]_vars

\* A at 100.000, B at 100.018, precursor 300 each, D = [0], r = 1
Scenario3 ==
    /\ mzis = <<<<[mz |-> <<10000000>>, it |-> <<16>>]>>,
                <<[mz |-> <<10001800>>, it |-> <<16>>]>>>>
    /\ pmzs = <<<<30000000>>, <<30000000>>>>
    /\ opts.mass_diffs = <<0>> /\ opts.react_steps = 1

\* C5 as stated: the two spectra of scenario 3 are discretized and score
\* mzc = 1 and mzi = 1 at T = 0.01, and mzc = 0 and mzi = 0 at T = 0.005.
C5_Scenario3Scores ==
    Scenario3 =>
        /\ S1.status \in {"input", "ok"} /\ S2.status \in {"input", "ok"}
        /\ call.order = "12" =>
              /\ S12.status = "ok"
              /\ opts.tolerance = 1000 =>
                    /\ S12.m["mzc"].m[<<0, 0>>].num = 1
                    /\ S12.m["mzi"].m[<<0, 0>>] = [num |-> 16, den2 |-> 256]
              /\ opts.tolerance = 500 =>
                    /\ S12.m["mzc"].m[<<0, 0>>].num = 0
                    /\ S12.m["mzi"].m[<<0, 0>>].num = 0

----------------------------------------------------------------------------
(* compute_network_score and filter_hits (lines 253-298).  A result matrix  *)
(* is a function from (query, reference) to a number; a score is counted    *)
(* in quarters (2 is 0.5), a zero cell is a cell the sparse matrix does not *)
(* store.                                                                   *)

\* sparse elementwise maximum (entries are never negative)
Maximum(M, N) == [ab \in DOMAIN M |-> IF M[ab] >= N[ab] THEN M[ab] ELSE N[ab]]

\* M >= threshold for a positive threshold: a boolean matrix
AtLeast(M, threshold) == [ab \in DOMAIN M |-> M[ab] >= threshold]

\* M.multiply(idx)
Multiply(M, idx) == [ab \in DOMAIN M |-> IF idx[ab] THEN M[ab] ELSE 0]

\* lines 253-256
compute_network_score(scores) ==
    [k \in DOMAIN scores \cup {"network_score", "network_matches"} |->
        IF k = "network_score" THEN Maximum(scores["mzi"], scores["nli"])
        ELSE IF k = "network_matches" THEN Maximum(scores["mzc"], scores["nlc"])
        ELSE scores[k]]

\* faulty variant of KeepIdx: no good_matches override
KeepIdxWithoutOverride(score, matches, good_score, min_matches, good_matches) ==
    [ab \in DOMAIN score |->
        AtLeast(score, good_score)[ab] /\ AtLeast(matches, min_matches)[ab]]

\* lines 276-278 and 287-289: (score >= good_score).multiply(matches >=
\* min_matches).maximum(matches >= good_matches)
KeepIdx(score, matches, good_score, min_matches, good_matches) ==
    [ab \in DOMAIN score |->
        \/ AtLeast(score, good_score)[ab] /\ AtLeast(matches, min_matches)[ab]
        \/ AtLeast(matches, good_matches)[ab]]

\* lines 259-298.  Comparing a sparse matrix with 0 by >= is not implemented
\* by scipy and raises.
filter_hits(scores, good_score, min_matches, good_matches, calc_network_score) ==
    LET N == compute_network_score(scores)
    IN  IF good_score = 0 \/ min_matches = 0 \/ good_matches = 0
        THEN Raised("NotImplementedError")
        ELSE IF calc_network_score
        THEN LET idx == KeepIdx(N["network_score"], N["network_matches"],
                                good_score, min_matches, good_matches)
             IN  [status |-> "ok",
                  S12 |-> [N EXCEPT !["network_score"] = Multiply(@, idx),
                                    !["network_matches"] = Multiply(@, idx)]]
        ELSE LET idx == KeepIdx(N["mzi"], N["mzc"], good_score, min_matches, good_matches)
             IN  [status |-> "ok",
                  S12 |-> [N EXCEPT !["mzi"] = Multiply(@, idx),
                                    !["mzc"] = Multiply(@, idx)]]

\* (score, count) of one cell of one kind: both zero or both positive
FilterCells == {<<0, 0>>} \cup ({1, 3} \X {1, 3})

FilterShape == (0..0) \X (0..1)

FilterInputs ==
    {[k \in Keys |-> [ab \in FilterShape |->
          IF k = "mzi" THEN mz[ab][1] ELSE IF k = "mzc" THEN mz[ab][2]
          ELSE IF k = "nli" THEN nl[ab][1] ELSE nl[ab][2]]] :
        mz \in [FilterShape -> FilterCells], nl \in [FilterShape -> FilterCells]}

FilterOpts ==
    [good_score : {0, 2, 4}, min_matches : {0, 2}, good_matches : {0, 1, 3},
     calc_network_score : BOOLEAN]

InitFilter ==
    /\ hits \in [status : {"input"}, S12 : FilterInputs]
    /\ opts \in FilterOpts
    /\ ret = [status |-> "none"]
    /\ mzis = Unused /\ pmzs = Unused /\ S1 = Unused /\ S2 = Unused
    /\ S12 = Unused /\ call = Unused

FilterHits ==
    /\ ret.status = "none"
    /\ ret' = filter_hits(hits.S12, opts.good_score, opts.min_matches, opts.good_matches,
                          opts.calc_network_score)
    /\ UNCHANGED <<mzis, pmzs, opts, S1, S2, S12, call, hits>>

NextFilter == FilterHits

SpecFilter == InitFilter /\ [][NextFilter]_vars

NetworkFiltered == ret.status = "ok" /\ opts.calc_network_score

NetworkScoreOf(ab) == IF hits.S12["mzi"][ab] >= hits.S12["nli"][ab]
                      THEN hits.S12["mzi"][ab] ELSE hits.S12["nli"][ab]

NetworkMatchesOf(ab) == IF hits.S12["mzc"][ab] >= hits.S12["nlc"][ab]
                        THEN hits.S12["mzc"][ab] ELSE hits.S12["nlc"][ab]

\* the entry of network_score and network_matches is kept as it was
Kept(ab) ==
    /\ ret.S12["network_score"][ab] = NetworkScoreOf(ab)
    /\ ret.S12["network_matches"][ab] = NetworkMatchesOf(ab)

Zeroed(ab) ==
    /\ ret.S12["network_score"][ab] = 0
    /\ ret.S12["network_matches"][ab] = 0

ScoreAndMatches(ab) ==
    /\ hits.S12["mzi"][ab] >= opts.good_score \/ hits.S12["nli"][ab] >= opts.good_score
    /\ hits.S12["mzc"][ab] >= opts.min_matches \/ hits.S12["nlc"][ab] >= opts.min_matches

ManyMatches(ab) ==
    hits.S12["mzc"][ab] >= opts.good_matches \/ hits.S12["nlc"][ab] >= opts.good_matches

\* C7 as stated: filter_hits in network-score mode keeps entry (q, r) of
\* network_score and network_matches iff (mzi >= score OR nli >= score) AND
\* (mzc >= matches OR nlc >= matches), and zeroes every other entry.
C7_KeepsIffScoreAndMatches ==
    NetworkFiltered =>
        \A ab \in FilterShape :
            IF ScoreAndMatches(ab) THEN Kept(ab) ELSE Zeroed(ab)

\* C7 amended: with positive thresholds filter_hits in network-score mode
\* keeps entry (q, r) iff ((mzi >= good_score OR nli >= good_score) AND
\* (mzc >= min_matches OR nlc >= min_matches)) OR mzc >= good_matches OR
\* nlc >= good_matches, and zeroes every other entry; with a threshold equal
\* to 0 it raises NotImplementedError.
C7_KeepsIffScoreAndMatchesOrManyMatches ==
    (ret.status # "none" /\ opts.calc_network_score) =>
        IF opts.good_score > 0 /\ opts.min_matches > 0 /\ opts.good_matches > 0
        THEN /\ ret.status = "ok"
             /\ \A ab \in FilterShape :
                   IF ScoreAndMatches(ab) \/ ManyMatches(ab) THEN Kept(ab) ELSE Zeroed(ab)
        ELSE ret.status = "NotImplementedError"

C7_Witness ==
    /\ NetworkFiltered
    /\ ~ScoreAndMatches(<<0, 0>>) /\ ManyMatches(<<0, 0>>)
    /\ Kept(<<0, 0>>) /\ ret.S12["network_matches"][<<0, 0>>] = 3
    /\ ~ScoreAndMatches(<<0, 1>>) /\ ~ManyMatches(<<0, 1>>)
    /\ NetworkMatchesOf(<<0, 1>>) > 0 /\ Zeroed(<<0, 1>>)

----------------------------------------------------------------------------
(* get_topk_blink_matrix (lines 300-329).  The table D is a sequence of     *)
(* rows [query, ref, score]: column query_col, a reference id that tells    *)
(* the rows apart, and column score_col.  np.argsort is called with its     *)
(* default kind, which is not stable: rows with equal keys come out in any  *)
(* order, so the function has a set of outcomes.                            *)

\* the orders np.argsort may return for the keys: every permutation of the
\* positions along which the keys do not decrease
Argsorts(keys) ==
    {p \in [1..Len(keys) -> 1..Len(keys)] :
        /\ \A i, j \in 1..Len(keys) : i # j => p[i] # p[j]
        /\ \A i \in 1..(Len(keys) - 1) : keys[p[i]] <= keys[p[i + 1]]}

\* D[idx, :]
TakeRows(D, idx) == [i \in 1..Len(idx) |-> D[idx[i]]]

\* line 318: np.unique(D[:, query_col], return_index=True), the index of the
\* first row of every query value, as 1-based positions in ascending order
\* of the value
UniqueIndex(D) ==
    SortedSeqOf({i \in 1..Len(D) : \A j \in 1..(i - 1) : D[j].query # D[i].query})

\* lines 321-328 on the table sorted at lines 310-313
TopkOfSorted(D, k) ==
    LET u_idx == UniqueIndex(D)
        hits_ == [i \in 1..(Len(u_idx) - 1) |->
                    IF u_idx[i + 1] - u_idx[i] >= k
                    THEN [j \in 1..k |-> u_idx[i] + j - 1]
                    ELSE [j \in 1..(u_idx[i + 1] - u_idx[i]) |-> u_idx[i] + j - 1]]
    IN  IF Len(u_idx) <= 1 THEN Raised("ValueError")
        ELSE [status |-> "ok", D |-> TakeRows(D, Flatten(hits_))]

\* lines 312-328: the outcomes for a table already sorted by score
TopkOfScoreSorted(D, k) ==
    {TopkOfSorted(TakeRows(D, p), k) :
        p \in Argsorts([i \in 1..Len(D) |-> D[i].query])}

\* lines 300-329: every outcome of the call
get_topk_blink_matrix(D, k) ==
    UNION {TopkOfScoreSorted(TakeRows(D, Reverse(p)), k) :
             p \in Argsorts([i \in 1..Len(D) |-> D[i].score])}

TopkQueries == 0..2

TopkScores == {1, 2}

\* tables of 1..MaxLen rows; the reference id of a row is its position
TopkTables ==
    UNION {{[i \in 1..n |-> [query |-> qs[i], ref |-> i, score |-> ss[i]]] :
              qs \in [1..n -> TopkQueries], ss \in [1..n -> TopkScores]} :
           n \in 1..MaxLen}

InitTopk ==
    /\ hits \in [status : {"input"}, D : TopkTables]
    /\ opts \in [k : {1, 2}]
    /\ ret = [status |-> "none"]
    /\ mzis = Unused /\ pmzs = Unused /\ S1 = Unused /\ S2 = Unused
    /\ S12 = Unused /\ call = Unused

GetTopkBlinkMatrix ==
    /\ ret.status = "none"
    /\ ret' \in get_topk_blink_matrix(hits.D, opts.k)
    /\ UNCHANGED <<mzis, pmzs, opts, S1, S2, S12, call, hits>>

NextTopk == GetTopkBlinkMatrix

SpecTopk == InitTopk /\ [][NextTopk]_vars

RowsOfQuery(D, q) == {D[i] : i \in {j \in 1..Len(D) : D[j].query = q}}

MinOf(a, b) == IF a <= b THEN a ELSE b

\* C11 as stated: for every query id of the table (the largest one and the
\* only one included) the result holds exactly min(k, n_q) rows of the
\* query, and they are the rows of the query with the highest scores.
C11_TopkOfEveryQuery ==
    ret.status # "none" =>
        /\ ret.status = "ok"
        /\ \A i \in 1..Len(hits.D) :
              LET q    == hits.D[i].query
                  all  == RowsOfQuery(hits.D, q)
                  kept == RowsOfQuery(ret.D, q)
              IN  /\ kept \subseteq all
                  /\ Cardinality(kept) = MinOf(opts.k, Cardinality(all))
                  /\ \A x \in kept, y \in all \ kept : x.score >= y.score

----------------------------------------------------------------------------
(* Further claims about discretize_spectra, under SpecDisc.                *)

\* the input spectrum (0-based) that the stored spectrum id sid came from
InputSpectrumOf(sid) == IF opts.trim_empty THEN TrimKept(mzis)[sid + 1] ELSE sid

\* the number of peaks of a returned store: S['ic'] holds the m/z entries
\* first and as many neutral-loss entries after them
NumPeaks(S) == Len(S.ic) \div 2

\* C12 as stated: for every stored peak, under every option combination, the
\* neutral-loss bin is round(pmz[s]/w) - round(mz/w), pmz[s] the precursor
\* of the input spectrum s the peak came from.
C12_NlBinUsesOwnPrecursor ==
    ret.status = "ok" =>
        \A i \in 1..NumPeaks(ret.S) :
            ret.S.mz[NumPeaks(ret.S) + i] - ret.S.shift =
                Rint(pmzs[InputSpectrumOf(ret.S.spec_ids[i]) + 1], opts.bin_width)
                    - (ret.S.mz[i] - ret.S.shift)

RealEntry(S, i) == S.ic[i].re.base > 0

ImagEntry(S, i) == S.ic[i].im > 0

SameCell(S, i, j) == S.spec_ids[i] = S.spec_ids[j] /\ S.mz[i] = S.mz[j]

\* C13 as stated: in a store no (spec_id, column) cell holds both an entry
\* with nonzero real part and an entry with nonzero imaginary part.
C13_NoCellWithBothParts ==
    ret.status = "ok" =>
        \A i, j \in 1..Len(ret.S.ic) :
            (RealEntry(ret.S, i) /\ ImagEntry(ret.S, j)) => ~SameCell(ret.S, i, j)

\* C13 amended: every entry of a store has exactly one of its real and
\* imaginary part nonzero, the m/z entries the real and the neutral-loss
\* entries the imaginary one (a cell may hold one entry of each kind).
C13_EveryEntryHasOnePart ==
    ret.status = "ok" =>
        \A i \in 1..Len(ret.S.ic) :
            /\ RealEntry(ret.S, i) # ImagEntry(ret.S, i)
            /\ RealEntry(ret.S, i) = (i <= NumPeaks(ret.S))

C13_Witness ==
    /\ ret.status = "ok"
    /\ NumPeaks(ret.S) = 2
    /\ RealEntry(ret.S, 1) /\ ImagEntry(ret.S, 3) /\ SameCell(ret.S, 1, 3)
    /\ ~SameCell(ret.S, 2, 4)

----------------------------------------------------------------------------
(* Sequences of score_sparse_spectra calls on the same two stores, every    *)
(* call with kernel parameters of its own; call records the arguments of    *)
(* the last call.                                                           *)

CallsA ==
    {[ms |-> <<[mz |-> <<2>>, it |-> <<1>>]>>, pm |-> <<4>>],
     [ms |-> <<[mz |-> <<2, 6>>, it |-> <<1, 4>>]>>, pm |-> <<4>>],
     [ms |-> <<[mz |-> <<2>>, it |-> <<1>>], [mz |-> <<4>>, it |-> <<4>>]>>, pm |-> <<4, 8>>]}

CallsB ==
    {[ms |-> <<[mz |-> <<4>>, it |-> <<1>>]>>, pm |-> <<4>>],
     [ms |-> <<[mz |-> <<2>>, it |-> <<4>>], [mz |-> <<6>>, it |-> <<1>>]>>, pm |-> <<4, 8>>]}

CallParams == [tolerance : {1, 2, 4}, mass_diffs : {<<0>>, <<4>>}, react_steps : {1}]

InitCalls ==
    /\ \E a \in CallsA, b \in CallsB :
          /\ mzis = <<a.ms, b.ms>>
          /\ pmzs = <<a.pm, b.pm>>
    /\ opts = [bin_width |-> 2, intensity_power |-> 2]
    /\ S1 = [status |-> "input"]
    /\ S2 = [status |-> "input"]
    /\ S12 = [status |-> "none"]
    /\ call = [order |-> "none"]
    /\ ret = Unused /\ hits = Unused

CalledWith(order, q) ==
    [order |-> order, tolerance |-> q.tolerance, mass_diffs |-> q.mass_diffs,
     react_steps |-> q.react_steps]

\* score_sparse_spectra(S1, S2, ...)
CallS1S2 ==
    /\ S1.status = "ok" /\ S2.status = "ok"
    /\ \E q \in CallParams :
        /\ \E r \in {score_sparse_spectra(S1.S, S2.S, FALSE, q.tolerance,
                                         q.mass_diffs, q.react_steps)} :
               /\ S1' = [S1 EXCEPT !.S = r.S1]
               /\ S2' = [S2 EXCEPT !.S = r.S2]
               /\ S12' = Returned(r)
        /\ call' = CalledWith("12", q)
    /\ UNCHANGED <<mzis, pmzs, opts, ret, hits>>

\* score_sparse_spectra(S2, S1, ...)
CallS2S1 ==
    /\ S1.status = "ok" /\ S2.status = "ok"
    /\ \E q \in CallParams :
        /\ \E r \in {score_sparse_spectra(S2.S, S1.S, FALSE, q.tolerance,
                                         q.mass_diffs, q.react_steps)} :
               /\ S2' = [S2 EXCEPT !.S = r.S1]
               /\ S1' = [S1 EXCEPT !.S = r.S2]
               /\ S12' = Returned(r)
        /\ call' = CalledWith("21", q)
    /\ UNCHANGED <<mzis, pmzs, opts, ret, hits>>

\* score_sparse_spectra(S1, S1, ...)
CallSelf ==
    /\ S1.status = "ok" /\ S2.status = "ok"
    /\ \E q \in CallParams :
        /\ \E r \in {score_sparse_spectra(S1.S, S1.S, TRUE, q.tolerance,
                                         q.mass_diffs, q.react_steps)} :
               /\ S1' = [S1 EXCEPT !.S = r.S2]
               /\ S12' = Returned(r)
        /\ call' = CalledWith("11", q)
    /\ UNCHANGED <<mzis, pmzs, opts, ret, S2, hits>>

NextCalls == Discretize \/ CallS1S2 \/ CallS2S1 \/ CallSelf

SpecCalls == InitCalls /\ [][NextCalls]_vars

NetFields == {"ic_net", "spec_ids_net", "mz_net", "shift_net"}

\* T is S with derived fields added or overwritten and nothing else touched
OnlyNetFieldsWritten(S, T) ==
    /\ DOMAIN S \subseteq DOMAIN T
    /\ (DOMAIN T \ DOMAIN S) \subseteq NetFields
    /\ \A k \in DOMAIN S \ NetFields : T[k] = S[k]

\* the store as discretize_spectra made it, before any call
Fresh(l) ==
    discretize_spectra(mzis[l], pmzs[l], opts.bin_width, opts.intensity_power,
                       FALSE, FALSE).S

\* what the call c returns on stores no call has touched
FreshResult(c) ==
    Returned(IF c.order = "12"
             THEN score_sparse_spectra(Fresh(1), Fresh(2), FALSE, c.tolerance,
                                       c.mass_diffs, c.react_steps)
             ELSE IF c.order = "21"
             THEN score_sparse_spectra(Fresh(2), Fresh(1), FALSE, c.tolerance,
                                       c.mass_diffs, c.react_steps)
             ELSE score_sparse_spectra(Fresh(1), Fresh(1), TRUE, c.tolerance,
                                       c.mass_diffs, c.react_steps))

\* the call recorded in call' expands S1 (else S2): the argument with fewer
\* entries, the second argument on a tie
ExpandsS1 ==
    \/ call'.order = "11"
    \/ call'.order = "12" /\ Len(S1.S.ic) < Len(S2.S.ic)
    \/ call'.order = "21" /\ ~(Len(S2.S.ic) < Len(S1.S.ic))

CallKeepsFrame ==
    /\ S1'.status = "ok" /\ S2'.status = "ok"
    /\ OnlyNetFieldsWritten(S1.S, S1'.S)
    /\ OnlyNetFieldsWritten(S2.S, S2'.S)
    /\ IF ExpandsS1 THEN S2' = S2 ELSE S1' = S1
    /\ S12' = FreshResult(call')
    /\ S12'.status = "ok" =>
          NetFields \subseteq DOMAIN (IF ExpandsS1 THEN S1'.S ELSE S2'.S)

\* C14: a score_sparse_spectra call leaves the base fields of both stores
\* unchanged, writes derived (_net) fields on one store only, the argument
\* with fewer entries (the second on a tie), and returns what it returns on
\* stores no earlier call has touched.
C14_CallsOnlyWriteNetFields ==
    [][(S1.status = "ok" /\ S2.status = "ok") => CallKeepsFrame]_vars

\* the last call expanded S2 while S1 still carries the derived fields of
\* an earlier call with other parameters
C14_Witness ==
    /\ call.order = "12" /\ S12.status = "ok"
    /\ Len(S1.S.ic) > Len(S2.S.ic)
    /\ NetFields \subseteq DOMAIN S1.S /\ NetFields \subseteq DOMAIN S2.S
    /\ call.tolerance = 4 /\ call.mass_diffs = <<0>>
    /\ Len(S1.S.mz_net) = 2 * Len(S1.S.mz)
    /\ Len(S2.S.mz_net) = 3 * Len(S2.S.mz)

====
